---- MODULE Spec2Model ----
(***************************************************************************)
(* Model of PersonalExpenseTracker.py: the expenses.csv record store       *)
(* (adds_expense), the monthly report (view_report), the forecast          *)
(* (predict_the_next_month), the budget arithmetic                         *)
(* (calculate_the_monthly_budget) and the module-level page script that    *)
(* Streamlit runs top to bottom once per interaction and per session.      *)
(*                                                                         *)
(* Money is counted in cents; a quotient such as yearly_income / 12 is     *)
(* kept exact as a ratio of integers, and rounding happens where the code  *)
(* formats with %.2f.  A cell of a DataFrame is a record [k |-> kind, ...];*)
(* a field of the CSV file is its text.                                    *)
(*                                                                         *)
(* Spec is one browser session running the page again and again.  SpecTabs *)
(* is two sessions whose calls of adds_expense interleave at the file      *)
(* operations: the read, the open for writing (which cuts the file to no   *)
(* bytes) and the write from the start of the file.                        *)
(***************************************************************************)
EXTENDS Integers, Sequences, FiniteSets, TLC

\* ------------------------------------------------------------------ bounds

\* Calls of adds_expense in one behaviour (the program itself has no limit).
MaxAdds == 3

\* ------------------------------------------------------------- cell values

NaN == [k |-> "nan"]
StrCell(s) == [k |-> "str", s |-> s]
FloatCell(c) == [k |-> "float", c |-> c]
IntCell(n) == [k |-> "int", n |-> n]
DateCell(y, m, d) == [k |-> "date", y |-> y, m |-> m, d |-> d]

\* Two-digit, zero-padded decimal (%m, %d of date.isoformat / strftime).
Pad2(n) == IF n < 10 THEN "0" \o ToString(n) ELSE ToString(n)

\* str(datetime.date): YYYY-MM-DD.
IsoFormat(v) == ToString(v.y) \o "-" \o Pad2(v.m) \o "-" \o Pad2(v.d)

\* repr of a non-negative float with at most two decimals, c in cents:
\* 10000 -> "100.0", 1250 -> "12.5", 5 -> "0.05".
FloatRepr(c) ==
    LET whole == c \div 100
        frac == c % 100
    IN ToString(whole) \o "." \o
       (IF frac % 10 = 0 THEN ToString(frac \div 10) ELSE Pad2(frac))

\* The text DataFrame.to_csv writes for one cell (na_rep = "").
CellText(v) ==
    CASE v.k = "str" -> v.s
      [] v.k = "date" -> IsoFormat(v)
      [] v.k = "float" -> FloatRepr(v.c)
      [] v.k = "int" -> ToString(v.n)
      [] v.k = "nan" -> ""

\* ---------------------------------------------------------------- inputs

\* The calendar dates the date picker hands over in this model.
Dates == {DateCell(2024, 1, 15), DateCell(2024, 1, 31), DateCell(2024, 2, 3)}

\* Amounts of the number input, in cents: 100.00, 300.00, 12.50, 0.05.
Amounts == {10000, 30000, 1250, 5}

\* The expenses entered in this model, with two of the categories of the
\* selectbox.  The first four are what the form can submit; the last two are
\* direct calls with a malformed Date or Amount.
Expenses ==
    { [Date |-> DateCell(2024, 1, 15), Amount |-> FloatCell(10000),
       Category |-> StrCell("Food"), Description |-> StrCell("lunch")],
      [Date |-> DateCell(2024, 2, 3), Amount |-> FloatCell(30000),
       Category |-> StrCell("Rent"), Description |-> StrCell("")],
      [Date |-> DateCell(2024, 1, 31), Amount |-> FloatCell(1250),
       Category |-> StrCell("Rent"), Description |-> StrCell("007")],
      [Date |-> DateCell(2024, 2, 3), Amount |-> FloatCell(5),
       Category |-> StrCell("Food"), Description |-> StrCell("NA")],
      [Date |-> StrCell("not-a-date"), Amount |-> FloatCell(10000),
       Category |-> StrCell("Food"), Description |-> StrCell("lunch")],
      [Date |-> DateCell(2024, 1, 15), Amount |-> StrCell("abc"),
       Category |-> StrCell("Food"), Description |-> StrCell("lunch")] }

\* ------------------------------------------------------------- read_csv

\* The strings pandas.read_csv reads as missing (its default na_values).
NAValues ==
    {"", "#N/A", "#N/A N/A", "#NA", "-1.#IND", "-1.#QNAN", "-NaN", "-nan",
     "1.#IND", "1.#QNAN", "<NA>", "N/A", "NA", "NULL", "NaN", "None", "n/a",
     "nan", "null"}

\* Integer literals that occur as field text: canonical decimals, and the
\* zero-padded "007".
IntValues == 0 .. 9

IsIntText(t) == t = "007" \/ \E n \in IntValues : ToString(n) = t

ParseInt(t) ==
    IF t = "007" THEN 7 ELSE CHOOSE n \in IntValues : ToString(n) = t

\* Float literals that occur as field text: the repr of an amount, or of an
\* integer read into a float64 column.
FloatValues == Amounts \cup {100 * n : n \in IntValues}

IsFloatText(t) == \E c \in FloatValues : FloatRepr(c) = t

ParseFloat(t) == CHOOSE c \in FloatValues : FloatRepr(c) = t

IsNumberText(t) == IsIntText(t) \/ IsFloatText(t)

\* A numeric literal as cents.
ParseNumber(t) == IF IsIntText(t) THEN 100 * ParseInt(t) ELSE ParseFloat(t)

\* The dtype read_csv infers for a column from its field texts: int64 when
\* every field is an integer literal, float64 when every non-missing field
\* is numeric, object otherwise.
ColumnDtype(texts) ==
    LET present == {i \in DOMAIN texts : texts[i] \notin NAValues}
    IN IF present = DOMAIN texts /\ \A i \in present : IsIntText(texts[i])
       THEN "int64"
       ELSE IF \A i \in present : IsNumberText(texts[i])
            THEN "float64"
            ELSE "object"

\* The cells read_csv builds for a column.
ReadColumn(texts) ==
    LET dtype == ColumnDtype(texts)
    IN [i \in DOMAIN texts |->
          IF texts[i] \in NAValues THEN NaN
          ELSE CASE dtype = "int64" -> IntCell(ParseInt(texts[i]))
                 [] dtype = "float64" -> FloatCell(ParseNumber(texts[i]))
                 [] OTHER -> StrCell(texts[i])]

ColumnOf(rows, col) == [i \in DOMAIN rows |-> rows[i][col]]

\* pd.read_csv(FILE_NAME) of a file with the given data rows (each a record
\* of four field texts): the DataFrame's rows and its columns' dtypes.
read_csv(rows) ==
    LET cells == [col \in {"Date", "Amount", "Category", "Description"} |->
                    ReadColumn(ColumnOf(rows, col))]
    IN [rows |-> [i \in DOMAIN rows |->
                    [col \in {"Date", "Amount", "Category", "Description"} |->
                       cells[col][i]]],
        dtypes |-> [col \in {"Date", "Amount", "Category", "Description"} |->
                      ColumnDtype(ColumnOf(rows, col))]]

\* ---------------------------------------------------------------- to_csv

RowText(row) ==
    [col \in {"Date", "Amount", "Category", "Description"} |->
       CellText(row[col])]

\* df.to_csv(FILE_NAME, index=False): the data rows written.
to_csv(dfrows) == [i \in DOMAIN dfrows |-> RowText(dfrows[i])]

\* ------------------------------------------------------- dates and numbers

NaT == [k |-> "nat"]

\* pd.to_datetime(column, errors="coerce") on one cell: a YYYY-MM-DD text
\* is its date, any other text and a missing value are NaT, a number is
\* nanoseconds after 1970-01-01.
to_datetime(v) ==
    CASE v.k = "str" ->
           IF \E d \in Dates : IsoFormat(d) = v.s
           THEN CHOOSE d \in Dates : IsoFormat(d) = v.s
           ELSE NaT
      [] v.k = "nan" -> NaT
      [] OTHER -> DateCell(1970, 1, 1)

\* .dt.to_period("M"): months since 1970-01, NaT kept.
to_period(ts) ==
    IF ts = NaT THEN NaT
    ELSE [k |-> "period", ord |-> (ts.y - 1970) * 12 + (ts.m - 1)]

\* str(Period) at monthly frequency, and datetime.strftime("%Y-%m").
PeriodText(p) ==
    IF p = NaT THEN "NaT"
    ELSE ToString(1970 + (p.ord \div 12)) \o "-" \o Pad2((p.ord % 12) + 1)

strftime_Ym(d) == ToString(d.y) \o "-" \o Pad2(d.m)

\* pd.to_numeric(column, errors="coerce") on one cell, as a float cell.
to_numeric(v) ==
    CASE v.k = "str" ->
           IF IsNumberText(v.s) THEN FloatCell(ParseNumber(v.s)) ELSE NaN
      [] v.k = "int" -> FloatCell(100 * v.n)
      [] v.k = "float" -> v
      [] OTHER -> NaN

\* The quotients n / d (d > 0) rounded to an integer, to nearest; a tie is
\* decided by the binary value of the float, which the model does not
\* carry, so both neighbours are possible.
RoundDiv(n, d) ==
    LET q == n \div d
        r == n % d
    IN CASE 2 * r < d -> {q}
         [] 2 * r > d -> {q + 1}
         [] OTHER -> {q, q + 1}

\* "%.2f" of a number of cents.
Fixed2(c) == ToString(c \div 100) \o "." \o Pad2(c % 100)

\* f"{x:.2f}" for x = n / d cents: the texts it can produce.
Format2f(n, d) ==
    { IF n < 0 THEN "-" \o Fixed2(-c) ELSE Fixed2(c) : c \in RoundDiv(n, d) }

\* ------------------------------------------------- the file and exceptions

\* expenses.csv: absent, present with no bytes (opened for writing and not
\* yet written), or a header line and data rows.
NoFile == [state |-> "absent", rows |-> <<>>]
OpenedFile == [state |-> "empty", rows |-> <<>>]
CsvFile(rows) == [state |-> "csv", rows |-> rows]

\* An exception with its str(e).
Raised(text) == [k |-> "exception", text |-> text]

\* The pandas.errors.EmptyDataError read_csv raises on a file with no bytes.
EmptyDataError == Raised("No columns to parse from file")

\* --------------------------------------------------------------- cleaning

RECURSIVE Select(_, _, _)
\* The rows of seq whose index satisfies keep, in order (boolean indexing
\* and dropna).
Select(seq, keep, i) ==
    IF i > Len(seq) THEN <<>>
    ELSE (IF keep[i] THEN <<seq[i]>> ELSE <<>>) \o Select(seq, keep, i + 1)

\* A mutant of CleanRows: line 63 (and 98) left out, rows whose Amount is
\* NaN stay.
CleanRowsKeepNaNAmount(df) ==
    LET dated == [i \in DOMAIN df.rows |->
                    [df.rows[i] EXCEPT !.Date = to_datetime(df.rows[i].Date)]]
        noNaT == Select(dated, [i \in DOMAIN dated |-> dated[i].Date # NaT], 1)
    IN [i \in DOMAIN noNaT |->
          [Date |-> noNaT[i].Date,
           Month |-> to_period(noNaT[i].Date),
           Amount |-> to_numeric(noNaT[i].Amount),
           Category |-> noNaT[i].Category,
           Description |-> noNaT[i].Description]]

\* Lines 51-63 and 86-98: Date to datetime, rows with NaT dropped, Month
\* added, Amount to numeric, rows with NaN dropped.
CleanRows(df) ==
    LET dated == [i \in DOMAIN df.rows |->
                    [df.rows[i] EXCEPT !.Date = to_datetime(df.rows[i].Date)]]
        noNaT == Select(dated, [i \in DOMAIN dated |-> dated[i].Date # NaT], 1)
        month == [i \in DOMAIN noNaT |->
                    [Date |-> noNaT[i].Date,
                     Month |-> to_period(noNaT[i].Date),
                     Amount |-> to_numeric(noNaT[i].Amount),
                     Category |-> noNaT[i].Category,
                     Description |-> noNaT[i].Description]]
    IN Select(month, [i \in DOMAIN month |-> month[i].Amount # NaN], 1)

RECURSIVE SumAmount(_, _, _)
\* Series.sum() of the float Amount cells with keep[i], NaN skipped.
SumAmount(rows, keep, i) ==
    IF i > Len(rows) THEN 0
    ELSE (IF keep[i] /\ rows[i].Amount # NaN THEN rows[i].Amount.c ELSE 0)
         + SumAmount(rows, keep, i + 1)

\* The bytes of a data row in the file: its fields, three commas and the
\* line end.
RowBytes(row) ==
    Len(row.Date) + Len(row.Amount) + Len(row.Category)
      + Len(row.Description) + 4

RECURSIVE Bytes(_)
Bytes(rows) ==
    IF rows = <<>> THEN 0 ELSE RowBytes(Head(rows)) + Bytes(Tail(rows))

\* What is left of a line that was overwritten up to some point inside it.
\* Its text is not modelled: it reads as one field.
PartialLine ==
    [Date |-> "<partial line>", Amount |-> "", Category |-> "",
     Description |-> ""]

RECURSIVE Leftover(_, _)
\* The rows of `rows` that remain after its first n bytes are overwritten:
\* a line cut in two leaves its tail (nothing when only its line end is
\* left, which read_csv skips as a blank line), later lines stay whole.
Leftover(rows, n) ==
    IF rows = <<>> THEN <<>>
    ELSE IF n <= 0 THEN rows
    ELSE IF n >= RowBytes(Head(rows)) THEN Leftover(Tail(rows), n - RowBytes(Head(rows)))
    ELSE (IF n = RowBytes(Head(rows)) - 1 THEN <<>> ELSE <<PartialLine>>)
         \o Tail(rows)

\* The file after to_csv writes `mine` from the start of a file that holds
\* `theirs`: to_csv cut the file to no bytes when it opened it, so theirs
\* is what another writer wrote since.  Both start with the same header.
Overlay(mine, theirs) == mine \o Leftover(theirs, Bytes(mine))

\* -------------------------------------------------------------- messages

None == [k |-> "none"]

AddedMessage == StrCell("Expense added successfully!")
NoDataMessage == StrCell("No expenses recorded yet!")
AddError(e) == StrCell("Error adding expense: " \o e.text)
ReportError(e) == StrCell("Error generating report: " \o e.text)
PredictError(e) == StrCell("Error predicting expenses: " \o e.text)
PredictionPrefix ==
    "Based on your spending history, your predicted total expenses for next month are: $"
BudgetPrefix == "Remaining budget for this month: $"
BudgetErrorPrefix == "An error occurred while calculating the remaining budget: "

\* The TypeError of float - str, and the NameError of reading a global that
\* was never assigned.
SubtractTypeError ==
    Raised("unsupported operand type(s) for -: 'float' and 'str'")
UnsetNameError == Raised("name 'remaining_budget' is not defined")

\* ---------------------------------------------------------- adds_expense

\* A mutant of concat: the new row first.
concat_new_first(dfrows, expense) == <<expense>> \o dfrows

\* pd.concat([df, pd.DataFrame([expense])], ignore_index=True): the new row
\* goes after the rows read.
concat(dfrows, expense) == dfrows \o <<expense>>

\* Lines 14-28: the frame adds_expense is about to save, or the exception
\* read_csv raises.  An absent file gives a frame of the new row alone.
expense_frame(f, expense) ==
    CASE f.state = "absent" -> [raised |-> None, rows |-> <<expense>>]
      [] f.state = "empty" -> [raised |-> EmptyDataError, rows |-> <<>>]
      [] OTHER -> [raised |-> None,
                   rows |-> concat(read_csv(f.rows).rows, expense)]

\* ----------------------------------------------------------- view_report

\* A mutant of GroupReport: .first() for .sum().
GroupReportFirst(rows) ==
    LET keyed == {i \in DOMAIN rows : rows[i].Category # NaN}
        groups == {<<rows[i].Month, rows[i].Category>> : i \in keyed}
        index == {g[1] : g \in groups}
        columns == {g[2] : g \in groups}
        first(g) == CHOOSE i \in keyed :
                       /\ <<rows[i].Month, rows[i].Category>> = g
                       /\ \A j \in keyed :
                             <<rows[j].Month, rows[j].Category>> = g => i <= j
    IN [index |-> index,
        columns |-> columns,
        cell |-> [g \in index \X columns |->
                    IF g \in groups THEN rows[first(g)].Amount.c ELSE 0]]

\* Line 66: groupby(["Month", "Category"])["Amount"].sum().unstack(
\* fill_value=0).  Rows with a missing Category form no group.  The index
\* and the columns are sorted by pandas; the model keeps them as sets.
GroupReport(rows) ==
    LET keyed == {i \in DOMAIN rows : rows[i].Category # NaN}
        groups == {<<rows[i].Month, rows[i].Category>> : i \in keyed}
        index == {g[1] : g \in groups}
        columns == {g[2] : g \in groups}
    IN [index |-> index,
        columns |-> columns,
        cell |-> [g \in index \X columns |->
                    IF g \in groups
                    THEN SumAmount(rows,
                                   [i \in DOMAIN rows |->
                                      /\ rows[i].Month = g[1]
                                      /\ rows[i].Category = g[2]], 1)
                    ELSE 0]]

\* A mutant of view_report: no check that the file exists, so read_csv
\* raises FileNotFoundError.
view_report_unchecked(f) ==
    CASE f.state = "absent" ->
           [error |-> ReportError(Raised("[Errno 2] No such file or directory: 'expenses.csv'")),
            report |-> None]
      [] f.state = "empty" ->
           [error |-> ReportError(EmptyDataError), report |-> None]
      [] OTHER ->
           [error |-> None,
            report |-> GroupReport(CleanRows(read_csv(f.rows)))]

\* view_report(): the pair (error, report) it returns.
view_report(f) ==
    CASE f.state = "absent" -> [error |-> NoDataMessage, report |-> None]
      [] f.state = "empty" ->
           [error |-> ReportError(EmptyDataError), report |-> None]
      [] OTHER ->
           [error |-> None,
            report |-> GroupReport(CleanRows(read_csv(f.rows)))]

\* ------------------------------------------------ predict_the_next_month

RECURSIVE SumOver(_, _)
\* Series.sum() of a Series given as a function on the set keys.
SumOver(series, keys) ==
    IF keys = {} THEN 0
    ELSE LET key == CHOOSE x \in keys : TRUE
         IN series[key] + SumOver(series, keys \ {key})

\* A mutant of MonthlyTotals: grouped by month and category, as the report.
MonthlyTotalsByCategory(rows) ==
    LET groups == {<<rows[i].Month, rows[i].Category>> : i \in DOMAIN rows}
    IN [g \in groups |->
          SumAmount(rows,
                    [i \in DOMAIN rows |->
                       <<rows[i].Month, rows[i].Category>> = g], 1)]

\* Line 101: groupby("Month")["Amount"].sum().
MonthlyTotals(rows) ==
    LET months == {rows[i].Month : i \in DOMAIN rows}
    IN [m \in months |->
          SumAmount(rows, [i \in DOMAIN rows |-> rows[i].Month = m], 1)]

\* predict_the_next_month(): the strings it can return.  The mean of no
\* monthly totals is NaN, which formats as "nan".
predict_the_next_month(f) ==
    CASE f.state = "absent" -> {NoDataMessage}
      [] f.state = "empty" -> {PredictError(EmptyDataError)}
      [] OTHER ->
           LET monthly_totals == MonthlyTotals(CleanRows(read_csv(f.rows)))
               months == DOMAIN monthly_totals
           IN IF months = {} THEN {StrCell(PredictionPrefix \o "nan")}
              ELSE {StrCell(PredictionPrefix \o t) :
                      t \in Format2f(SumOver(monthly_totals, months),
                                     Cardinality(months))}

\* ------------------------------------------- calculate_the_monthly_budget

\* A quotient of cents, kept exact.
Ratio(num, den) == [num |-> num, den |-> den]

\* A mutant of calculate_the_monthly_budget: the savings goal added.
calculate_adding_savings(yearly_income, savings_goal) ==
    LET monthly_income == Ratio(yearly_income, 12)
        remaining_budget ==
            Ratio(monthly_income.num + savings_goal * monthly_income.den,
                  monthly_income.den)
    IN [monthly_income |-> monthly_income,
        remaining_budget |-> remaining_budget]

\* calculate_the_monthly_budget(yearly_income, savings_goal), both in cents.
calculate_the_monthly_budget(yearly_income, savings_goal) ==
    LET monthly_income == Ratio(yearly_income, 12)
        remaining_budget ==
            Ratio(monthly_income.num - savings_goal * monthly_income.den,
                  monthly_income.den)
    IN [monthly_income |-> monthly_income,
        remaining_budget |-> remaining_budget]

\* Line 132: if yearly_income > 0.
HasIncome(income) == income > 0

\* A mutant of ShowsRemaining: the block runs with no income too.
ShowsRemainingAlways(income) == income >= 0

\* Line 209: if yearly_income > 0.
ShowsRemaining(income) == income > 0

\* ------------------------------------------ remaining monthly budget block

\* Lines 214-219: total_expenses, or the exception raised on the way.  The
\* Amount column is summed as read: an object column (some field is not a
\* number) sums its strings to a string, and 0 when no row is selected.
total_expenses(f, today) ==
    CASE f.state = "absent" -> [raised |-> None, sum |-> FloatCell(0)]
      [] f.state = "empty" -> [raised |-> EmptyDataError, sum |-> NaN]
      [] OTHER ->
           LET df == read_csv(f.rows)
               current_month == strftime_Ym(today)
               selected ==
                   [i \in DOMAIN df.rows |->
                      PeriodText(to_period(to_datetime(df.rows[i].Date)))
                        = current_month]
               numeric ==
                   [i \in DOMAIN df.rows |->
                      [Amount |-> IF df.rows[i].Amount.k = "int"
                                  THEN FloatCell(100 * df.rows[i].Amount.n)
                                  ELSE df.rows[i].Amount]]
           IN IF df.dtypes["Amount"] = "object"
              THEN IF \E i \in DOMAIN selected : selected[i]
                   THEN [raised |-> None, sum |-> StrCell("joined strings")]
                   ELSE [raised |-> None, sum |-> FloatCell(0)]
              ELSE [raised |-> None,
                    sum |-> FloatCell(SumAmount(numeric, selected, 1))]

\* Lines 211-225: what the block shows, as [widget, text].
remaining_budget_block(f, remaining_budget, today) ==
    LET total == total_expenses(f, today)
        failure ==
            IF total.raised # None THEN total.raised
            ELSE IF remaining_budget = None THEN UnsetNameError
            ELSE IF total.sum.k = "str" THEN SubtractTypeError
            ELSE None
    IN IF failure # None
       THEN {[widget |-> "error",
              text |-> BudgetErrorPrefix \o failure.text]}
       ELSE {[widget |-> "success", text |-> BudgetPrefix \o t] :
               t \in Format2f(remaining_budget.num
                                - total.sum.c * remaining_budget.den,
                              remaining_budget.den)}

\* ------------------------------------------------------------ page input

\* Yearly income and monthly savings goal typed into the sidebar, in cents:
\* no income; 1000.00 a year (not a whole number of cents a month) and
\* 120000.00 a year with a goal of 500.00; 120000.00 with a goal of
\* 15000.00, more than the monthly income.
BudgetInputs ==
    {<<0, 50000>>, <<100000, 50000>>, <<12000000, 50000>>,
     <<12000000, 1500000>>}

\* What datetime.now() can be during a run.
Todays == {DateCell(2024, 1, 20), DateCell(2024, 3, 1)}

Sessions == {1, 2}

\* ------------------------------------------------------------------ state

VARIABLES
    file,              \* expenses.csv
    active,            \* the browser sessions that run the page
    pc,                \* where each session's run of the script stands
    yearly_income,     \* line 129
    savings_goal,      \* line 130
    monthly_income,    \* the global of line 134, None while unassigned
    remaining_budget,  \* the global of line 134, None while unassigned
    expense,           \* the arguments of the adds_expense call under way
    df,                \* adds_expense's frame between read and save
    message,           \* what adds_expense returned in this run
    report_out,        \* what view_report returned in this run
    prediction,        \* what predict_the_next_month returned in this run
    budget_out,        \* what the remaining-budget block showed in this run
    nAdds,             \* history: calls of adds_expense so far
    added,             \* history: the expenses of the calls that returned
                       \* the success message, in order of return
    readRows,          \* history: the file's rows when the call read it
    raced,             \* history: the call read while another session's call
                       \* had read and not yet opened the file for writing
    overlapped,        \* history: the call had the file open for writing
                       \* while another session's call had
    lastDone           \* history: the session whose call returned last

vars ==
    <<file, active, pc, yearly_income, savings_goal, monthly_income,
      remaining_budget, expense, df, message, report_out, prediction,
      budget_out, nAdds, added, readRows, raced, overlapped, lastDone>>

outputs == <<message, report_out, prediction, budget_out>>
sidebar == <<yearly_income, savings_goal, monthly_income, remaining_budget>>
history == <<nAdds, added, readRows, raced, overlapped, lastDone>>

InitWith(sessions, at) ==
    /\ file = NoFile
    /\ active = sessions
    /\ pc = [s \in Sessions |-> at]
    /\ yearly_income = [s \in Sessions |-> 0]
    /\ savings_goal = [s \in Sessions |-> 0]
    /\ monthly_income = [s \in Sessions |-> None]
    /\ remaining_budget = [s \in Sessions |-> None]
    /\ expense = [s \in Sessions |-> None]
    /\ df = [s \in Sessions |-> <<>>]
    /\ message = [s \in Sessions |-> None]
    /\ report_out = [s \in Sessions |-> None]
    /\ prediction = [s \in Sessions |-> None]
    /\ budget_out = [s \in Sessions |-> None]
    /\ nAdds = 0
    /\ added = <<>>
    /\ readRows = [s \in Sessions |-> <<>>]
    /\ raced = [s \in Sessions |-> FALSE]
    /\ overlapped = [s \in Sessions |-> FALSE]
    /\ lastDone = 0

\* One user, one browser tab.
Init == InitWith({1}, "start")

\* Two browser tabs on the same expenses.csv, each at its Add Expense form.
InitTabs == InitWith(Sessions, "tab1")

\* ---------------------------------------------------------------- actions

\* Lines 124-140: a run of the script starts with fresh globals, reads the
\* sidebar and, with an income, computes the budget.
Sidebar(s) ==
    /\ s \in active
    /\ pc[s] = "start"
    /\ \E input \in BudgetInputs :
         LET income == input[1]
             goal == input[2]
         IN
         /\ yearly_income' = [yearly_income EXCEPT ![s] = income]
         /\ savings_goal' = [savings_goal EXCEPT ![s] = goal]
         /\ monthly_income' =
              [monthly_income EXCEPT
                 ![s] = IF HasIncome(income)
                        THEN calculate_the_monthly_budget(income, goal)
                               .monthly_income
                        ELSE None]
         /\ remaining_budget' =
              [remaining_budget EXCEPT
                 ![s] = IF HasIncome(income)
                        THEN calculate_the_monthly_budget(income, goal)
                               .remaining_budget
                        ELSE None]
    /\ expense' = [expense EXCEPT ![s] = None]
    /\ df' = [df EXCEPT ![s] = <<>>]
    /\ message' = [message EXCEPT ![s] = None]
    /\ report_out' = [report_out EXCEPT ![s] = None]
    /\ prediction' = [prediction EXCEPT ![s] = None]
    /\ budget_out' = [budget_out EXCEPT ![s] = None]
    /\ readRows' = [readRows EXCEPT ![s] = <<>>]
    /\ raced' = [raced EXCEPT ![s] = FALSE]
    /\ overlapped' = [overlapped EXCEPT ![s] = FALSE]
    /\ pc' = [pc EXCEPT ![s] = "tab1"]
    /\ UNCHANGED <<file, active, nAdds, added, lastDone>>

\* Line 170: the button was not pressed in this run.
NoAdd(s) ==
    /\ s \in active
    /\ pc[s] = "tab1"
    /\ pc' = [pc EXCEPT ![s] = "tab2"]
    /\ UNCHANGED <<file, active, sidebar, expense, df, outputs, history>>

\* Lines 170-171 and 14-28: the button was pressed; adds_expense builds its
\* frame from the file as it is now, or read_csv raises and the call returns
\* the error message.
AddRead(s) ==
    /\ s \in active
    /\ pc[s] = "tab1"
    /\ nAdds < MaxAdds
    /\ \E e \in Expenses :
         LET frame == expense_frame(file, e)
         IN /\ expense' = [expense EXCEPT ![s] = e]
            /\ IF frame.raised # None
               THEN /\ message' = [message EXCEPT ![s] = AddError(frame.raised)]
                    /\ pc' = [pc EXCEPT ![s] = "tab2"]
                    /\ lastDone' = s
                    /\ UNCHANGED <<df, raced>>
               ELSE /\ df' = [df EXCEPT ![s] = frame.rows]
                    /\ pc' = [pc EXCEPT ![s] = "add_open"]
                    /\ raced' =
                         IF \E t \in active \ {s} : pc[t] = "add_open"
                         THEN [t \in Sessions |->
                                 t = s \/ pc[t] = "add_open" \/ raced[t]]
                         ELSE raced
                    /\ UNCHANGED <<message, lastDone>>
    /\ nAdds' = nAdds + 1
    /\ readRows' = [readRows EXCEPT ![s] = file.rows]
    /\ UNCHANGED <<file, active, sidebar, report_out, prediction, budget_out,
                   added, overlapped>>

\* Line 31, first half: to_csv opens expenses.csv for writing, which
\* creates it or cuts it to no bytes.
AddOpen(s) ==
    /\ s \in active
    /\ pc[s] = "add_open"
    /\ file' = OpenedFile
    /\ pc' = [pc EXCEPT ![s] = "add_write"]
    /\ overlapped' =
         IF \E t \in active \ {s} : pc[t] = "add_write"
         THEN [t \in Sessions |->
                 t = s \/ pc[t] = "add_write" \/ overlapped[t]]
         ELSE overlapped
    /\ UNCHANGED <<active, sidebar, expense, df, outputs, nAdds, added,
                   readRows, raced, lastDone>>

\* Lines 31-33: to_csv writes the whole frame from the start of the file it
\* opened and adds_expense returns the success message.
AddWrite(s) ==
    /\ s \in active
    /\ pc[s] = "add_write"
    /\ file' = CsvFile(Overlay(to_csv(df[s]), file.rows))
    /\ message' = [message EXCEPT ![s] = AddedMessage]
    /\ pc' = [pc EXCEPT ![s] = "tab2"]
    /\ added' = Append(added, expense[s])
    /\ lastDone' = s
    /\ UNCHANGED <<active, sidebar, expense, df, report_out, prediction,
                   budget_out, nAdds, readRows, raced, overlapped>>

\* Line 183: view_report().
ViewReport(s) ==
    /\ s \in active
    /\ pc[s] = "tab2"
    /\ report_out' = [report_out EXCEPT ![s] = view_report(file)]
    /\ pc' = [pc EXCEPT ![s] = "tab3"]
    /\ UNCHANGED <<file, active, sidebar, expense, df, message, prediction,
                   budget_out, history>>

\* Line 198: predict_the_next_month().
Predict(s) ==
    /\ s \in active
    /\ pc[s] = "tab3"
    /\ \E text \in predict_the_next_month(file) :
         prediction' = [prediction EXCEPT ![s] = text]
    /\ pc' = [pc EXCEPT ![s] = "budget"]
    /\ UNCHANGED <<file, active, sidebar, expense, df, message, report_out,
                   budget_out, history>>

\* Lines 209-225: with an income, the remaining budget of this month.
RemainingBudget(s) ==
    /\ s \in active
    /\ pc[s] = "budget"
    /\ ShowsRemaining(yearly_income[s])
    /\ \E today \in Todays :
         \E shown \in remaining_budget_block(file, remaining_budget[s], today) :
            budget_out' =
              [budget_out EXCEPT ![s] = [widget |-> shown.widget,
                                         text |-> shown.text,
                                         today |-> today]]
    /\ pc' = [pc EXCEPT ![s] = "start"]
    /\ UNCHANGED <<file, active, sidebar, expense, df, message, report_out,
                   prediction, history>>

\* Line 209 false: the block is skipped and the run ends.
NoRemainingBudget(s) ==
    /\ s \in active
    /\ pc[s] = "budget"
    /\ ~ShowsRemaining(yearly_income[s])
    /\ pc' = [pc EXCEPT ![s] = "start"]
    /\ UNCHANGED <<file, active, sidebar, expense, df, outputs, history>>

Next ==
    \E s \in Sessions :
       \/ Sidebar(s)
       \/ NoAdd(s)
       \/ AddRead(s)
       \/ AddOpen(s)
       \/ AddWrite(s)
       \/ ViewReport(s)
       \/ Predict(s)
       \/ RemainingBudget(s)
       \/ NoRemainingBudget(s)

Spec == Init /\ [][Next]_vars

\* Lines 179-225 and 124-143 of one tab while another tab is open: the rest
\* of the run after adds_expense returned, and the start of the next run.
\* None of it writes expenses.csv.
Rerun(s) ==
    /\ s \in active
    /\ pc[s] = "tab2"
    /\ expense' = [expense EXCEPT ![s] = None]
    /\ df' = [df EXCEPT ![s] = <<>>]
    /\ message' = [message EXCEPT ![s] = None]
    /\ readRows' = [readRows EXCEPT ![s] = <<>>]
    /\ raced' = [raced EXCEPT ![s] = FALSE]
    /\ overlapped' = [overlapped EXCEPT ![s] = FALSE]
    /\ pc' = [pc EXCEPT ![s] = "tab1"]
    /\ UNCHANGED <<file, active, sidebar, report_out, prediction, budget_out,
                   nAdds, added, lastDone>>

\* The calls of adds_expense of two tabs, interleaved at its reads and
\* writes of the file.
NextTabs ==
    \E s \in Sessions :
       \/ AddRead(s)
       \/ AddOpen(s)
       \/ AddWrite(s)
       \/ Rerun(s)

SpecTabs == InitTabs /\ [][NextTabs]_vars

\* ============================================================== properties

\* What the properties say about the stored rows, read off the field texts.
ValidDateText(t) == \E d \in Dates : IsoFormat(d) = t
ValidAmountText(t) == IsNumberText(t)
ValidRecords(rows) ==
    {i \in DOMAIN rows :
       ValidDateText(rows[i].Date) /\ ValidAmountText(rows[i].Amount)}
MalformedRecords(rows) == DOMAIN rows \ ValidRecords(rows)
MonthOfRecord(r) == strftime_Ym(CHOOSE d \in Dates : IsoFormat(d) = r.Date)
AmountOfRecord(r) == ParseNumber(r.Amount)

RECURSIVE SumOfRecords(_, _)
SumOfRecords(rows, idx) ==
    IF idx = {} THEN 0
    ELSE LET i == CHOOSE x \in idx : TRUE
         IN AmountOfRecord(rows[i]) + SumOfRecords(rows, idx \ {i})

WithoutRow(rows, i) == SubSeq(rows, 1, i - 1) \o SubSeq(rows, i + 1, Len(rows))

InCall(s) == pc[s] \in {"add_open", "add_write"}

\* ---- C1
\* C1: starting from no file, after N successful calls of adds_expense by a
\* single caller the file holds exactly N records, in the order added, and
\* each field's text is the text of the value that was passed in.
C1_RoundTrip ==
    (~InCall(1) /\ added # <<>>) =>
       /\ file.state = "csv"
       /\ Len(file.rows) = Len(added)
       /\ \A i \in DOMAIN added : file.rows[i] = RowText(added[i])

\* ---- C2
BothReturned(s, t) ==
    /\ raced[s] /\ raced[t]
    /\ pc[s] = "tab2" /\ pc[t] = "tab2"
    /\ lastDone = s

Holds(row) == \E i \in DOMAIN file.rows : file.rows[i] = row

C3_ReportCells ==
    \A s \in active :
       (report_out[s] # None /\ file.state = "csv") =>
          LET rows == file.rows
              valid == ValidRecords(rows)
              report == report_out[s].report
          IN /\ report_out[s].error = None
             /\ {PeriodText(p) : p \in report.index}
                  = {MonthOfRecord(rows[i]) : i \in valid}
             /\ Cardinality(report.index)
                  = Cardinality({MonthOfRecord(rows[i]) : i \in valid})
             /\ report.columns = {StrCell(rows[i].Category) : i \in valid}
             /\ \A p \in report.index : \A c \in report.columns :
                   report.cell[<<p, c>>]
                     = SumOfRecords(rows,
                          {i \in valid :
                             /\ MonthOfRecord(rows[i]) = PeriodText(p)
                             /\ StrCell(rows[i].Category) = c})

C3_Witness ==
    /\ report_out[1] # None
    /\ file.state = "csv"
    /\ report_out[1].error = None
    /\ Cardinality(report_out[1].report.index) = 2
    /\ Cardinality(report_out[1].report.columns) = 2
    /\ \E g \in DOMAIN report_out[1].report.cell :
          report_out[1].report.cell[g] = 20000
    /\ \E g \in DOMAIN report_out[1].report.cell :
          report_out[1].report.cell[g] = 0

\* ---- C4
\* C4: a stored row with an unparseable Date or Amount adds nothing to the
\* report or to the forecast (both are what they are for the file without
\* that row), neither returns an error message, and neither operation
\* changes the file.
C4_MalformedRowsDropped ==
    /\ [](\A s \in active :
            file.state = "csv" =>
              \A i \in MalformedRecords(file.rows) :
                 LET rest == CsvFile(WithoutRow(file.rows, i))
                 IN /\ report_out[s] # None =>
                         /\ report_out[s].error = None
                         /\ report_out[s].report = view_report(rest).report
                    /\ prediction[s] # None =>
                         /\ prediction[s] \in predict_the_next_month(rest)
                         /\ prediction[s] # PredictError(EmptyDataError))
    /\ [][\A s \in active :
            (pc[s] \in {"tab2", "tab3"} /\ pc'[s] # pc[s]) => file' = file]_vars

C4_Witness ==
    /\ file.state = "csv"
    /\ MalformedRecords(file.rows) # {}
    /\ ValidRecords(file.rows) # {}
    /\ \E i \in DOMAIN file.rows : ~ValidDateText(file.rows[i].Date)
    /\ \E i \in DOMAIN file.rows : ~ValidAmountText(file.rows[i].Amount)
    /\ report_out[1] # None
    /\ prediction[1] # None
    /\ pc[1] = "budget"

\* ---- C5
\* C5: with at least one valid record the prediction is the mean of the
\* monthly totals over the months that have a valid record, to two
\* decimals; with one month it is that month's total, and with monthly
\* totals 100 and 300 it is 200.00.
C5_MeanOfMonthlyTotals ==
    \A s \in active :
       (/\ prediction[s] # None
        /\ file.state = "csv"
        /\ ValidRecords(file.rows) # {})
       => LET rows == file.rows
              valid == ValidRecords(rows)
              months == {MonthOfRecord(rows[i]) : i \in valid}
              total(m) ==
                  SumOfRecords(rows, {i \in valid : MonthOfRecord(rows[i]) = m})
              totals == [m \in months |-> total(m)]
              sum == SumOver(totals, months)
          IN /\ prediction[s] \in
                  {StrCell(PredictionPrefix \o t) :
                     t \in Format2f(sum, Cardinality(months))}
             /\ Cardinality(months) = 1 =>
                  prediction[s] = StrCell(PredictionPrefix \o Fixed2(sum))
             /\ (Cardinality(months) = 2
                 /\ {totals[m] : m \in months} = {10000, 30000}) =>
                  prediction[s] = StrCell(PredictionPrefix \o "200.00")

C5_Witness ==
    /\ prediction[1] = StrCell(PredictionPrefix \o "200.00")
    /\ file.state = "csv"
    /\ Len(file.rows) = 3
    /\ Cardinality(ValidRecords(file.rows)) = 2
    /\ Cardinality({MonthOfRecord(file.rows[i]) :
                      i \in ValidRecords(file.rows)}) = 2

\* ---- C6
\* C6: with no data file, view_report returns the no-data message and no
\* table, predict_the_next_month returns the no-data message, and the
\* remaining-budget block shows the budget after savings less 0, none of
\* them an error.
C6_NoFileNoData ==
    \A s \in active :
       file.state = "absent" =>
          /\ report_out[s] # None =>
               report_out[s] = [error |-> NoDataMessage, report |-> None]
          /\ prediction[s] # None => prediction[s] = NoDataMessage
          /\ budget_out[s] # None =>
               /\ budget_out[s].widget = "success"
               /\ budget_out[s].text \in
                    {BudgetPrefix \o t :
                       t \in Format2f(remaining_budget[s].num,
                                      remaining_budget[s].den)}

C6_Witness ==
    /\ file.state = "absent"
    /\ report_out[1] # None
    /\ prediction[1] # None
    /\ budget_out[1] # None

\* ---- C7
\* C7: only adds_expense changes the stored file, and a successful
\* adds_expense leaves the rows it found unchanged and adds exactly one row
\* at the end.
C7_AppendOnly ==
    /\ [](\A s \in active :
            (message[s] = AddedMessage /\ ~InCall(s)) =>
               /\ file.state = "csv"
               /\ file.rows = readRows[s] \o <<RowText(expense[s])>>)
    /\ [][file' # file => \E s \in active : InCall(s)]_vars

\* ---- C8
\* C8: calculate_the_monthly_budget returns monthly_income = yearly_income /
\* 12 and remaining = monthly_income - savings_goal, negative when
\* savings_goal > yearly_income / 12; for (120000, 500) it returns 10000.00
\* and 9500.00.
C8_MonthlyBudget ==
    \A s \in active :
       remaining_budget[s] # None =>
          LET mi == monthly_income[s]
              rb == remaining_budget[s]
          IN /\ mi.den > 0 /\ rb.den > 0
             /\ mi.num * 12 = yearly_income[s] * mi.den
             /\ rb.num * mi.den = (mi.num - savings_goal[s] * mi.den) * rb.den
             /\ 12 * savings_goal[s] > yearly_income[s] => rb.num < 0
             /\ (yearly_income[s] = 12000000 /\ savings_goal[s] = 50000) =>
                  /\ Format2f(mi.num, mi.den) = {"10000.00"}
                  /\ Format2f(rb.num, rb.den) = {"9500.00"}

C8_Witness ==
    /\ remaining_budget[1] # None
    /\ yearly_income[1] = 12000000
    /\ savings_goal[1] = 1500000
    /\ remaining_budget[1].num < 0

\* ---- C9
\* C9: with yearly_income > 0 the block shows remaining_budget less the sum
\* of Amount over the valid stored rows of the current month; a row with an
\* unparseable Date or Amount is left out and causes no error.
C9_TolerantBudget ==
    \A s \in active :
       (budget_out[s] # None /\ file.state = "csv") =>
          LET rows == file.rows
              spent ==
                  SumOfRecords(rows,
                     {i \in ValidRecords(rows) :
                        MonthOfRecord(rows[i])
                          = strftime_Ym(budget_out[s].today)})
              rb == remaining_budget[s]
          IN /\ budget_out[s].widget = "success"
             /\ budget_out[s].text \in
                  {BudgetPrefix \o t :
                     t \in Format2f(rb.num - spent * rb.den, rb.den)}

\* ---- C10
\* C10: remaining_budget is never read while unset: the block that reads it
\* runs only when yearly_income > 0, and with yearly_income = 0 a run ends
\* without the block and without an undefined-variable error.
C10_NeverReadUnset ==
    \A s \in active :
       /\ budget_out[s] # None =>
            /\ remaining_budget[s] # None
            /\ budget_out[s].text # BudgetErrorPrefix \o UnsetNameError.text
       /\ (pc[s] = "start" /\ prediction[s] # None /\ yearly_income[s] = 0) =>
            budget_out[s] = None

C10_Witness ==
    /\ pc[1] = "start"
    /\ prediction[1] # None
    /\ yearly_income[1] = 0
    /\ remaining_budget[1] = None
    /\ budget_out[1] = None

====
